---- MODULE Spec2Model ----
(***************************************************************************)
(* imuVPN API (src/api.py): the in-memory account store USERS, the session *)
(* registry SESSIONS, the per-identity device lists CONFIGS, the two       *)
(* authorization dependencies (auth, require_admin) and the route          *)
(* handlers.                                                               *)
(*                                                                         *)
(* Spec     runs the handlers one request at a time (each handler, with    *)
(*          its dependency, is one step), with FOUNDER_API_KEY set.        *)
(* EnvSpec  is Spec with FOUNDER_API_KEY set, empty or unset.              *)
(* ConcSpec runs requests on worker threads: the handlers are plain `def`  *)
(*          functions, which the framework executes on a thread pool, so   *)
(*          the statements of two requests interleave.                     *)
(*                                                                         *)
(* The random source (secrets.token_hex, secrets.randbelow) is a choice    *)
(* among the values it can return: nothing in the code tests a drawn value *)
(* against the ones drawn before.                                          *)
(***************************************************************************)
EXTENDS Integers, Sequences, FiniteSets, TLC

VARIABLES
    USERS,            \* api.py:31  email -> [password, active]
    SESSIONS,         \* api.py:32  token -> [email]
    CONFIGS,          \* api.py:33  email -> sequence of [name, location, config]
    FOUNDER_API_KEY,  \* api.py:196 the process environment's FOUNDER_API_KEY
    response,         \* what the last request returned: [op, status, body]
    stripe_calls,     \* how many calls that request made to stripe.checkout.Session.create
    history,          \* what the requests so far returned: who signed up, how many logins, devices
    pc,               \* ConcSpec: per thread, the statement it is about to run
    frame,            \* ConcSpec: per thread, the locals of its request
    observed          \* per thread in admin_overview: the counts of the states its call has passed

vars == <<USERS, SESSIONS, CONFIGS, FOUNDER_API_KEY, response, stripe_calls,
          history, pc, frame, observed>>

stores == <<USERS, SESSIONS, CONFIGS>>

(***************************************************************************)
(* Bounds of the model.                                                    *)
(***************************************************************************)
\* the random source returns one of this many values per token or key draw
RandSpace == 2
\* and one of this many values per address octet draw
OctetSpace == 1
\* successful logins per run
MaxLogins == 2
\* device records in the whole system
MaxDevices == 2
\* worker threads of ConcSpec
NumThreads == 2

(***************************************************************************)
(* Optional[str]: a header or an environment variable that may be absent.  *)
(***************************************************************************)
None == [isNone |-> TRUE]
Str(s) == [isNone |-> FALSE, val |-> s]
\* Python truthiness of an Optional[str]: None and "" are falsy
Truthy(o) == ~o.isNone /\ o.val # ""

(***************************************************************************)
(* secrets.token_hex(nbytes): nbytes random bytes, hex-encoded; r is the   *)
(* value the random source returned.                                       *)
(***************************************************************************)
TokenBytes == 16
HexDigits == <<"0", "1", "2", "3", "4", "5", "6", "7",
               "8", "9", "a", "b", "c", "d", "e", "f">>

RECURSIVE HexStr(_, _)
HexStr(n, digits) ==
    IF digits = 0 THEN ""
    ELSE HexStr(n \div 16, digits - 1) \o HexDigits[(n % 16) + 1]

\* the values the random source can return for a token or key draw
RandomDraws == 0 .. (RandSpace - 1)

\* secrets.token_hex(16), tabulated over the draws
TokenHex16 == [r \in RandomDraws |-> HexStr(r, 2 * TokenBytes)]
token_hex(r) == TokenHex16[r]

\* a source whose upper bound is inclusive
randbelow_inclusive(n) == {k \in 0..n : k > n - OctetSpace}

\* secrets.randbelow(n): an integer in [0, n); the model draws from the top
\* of the range
randbelow(n) == {k \in 0 .. (n - 1) : k >= n - OctetSpace}

(***************************************************************************)
(* Inputs.                                                                 *)
(***************************************************************************)
Emails == {"", "a@x.io"}
Passwords == {"", "pw"}
Tokens == {token_hex(r) : r \in RandomDraws}
Headers == {None, Str("")} \cup {Str(t) : t \in Tokens}
DeviceNames == {"phone"}
Locations == {"us-la-2", "jp-1"}
PriceIds == {"price_monthly", "price_yearly", "price_family", "price_weekly", ""}
AdminKeys == {None, Str(""), Str("founder-key"), Str("guess")}
EnvValues == {None, Str(""), Str("founder-key")}

SignupBodies == [email : Emails, password : Passwords]
LoginBodies == [email : Emails, password : Passwords]
CreateConfigBodies == [device_name : DeviceNames, location : Locations]
CheckoutBodies == [priceId : PriceIds]

(***************************************************************************)
(* Helpers on the stores.                                                  *)
(***************************************************************************)
\* d[k] = v for a dict d
Put(d, k, v) == [x \in DOMAIN d \cup {k} |-> IF x = k THEN v ELSE d[x]]

RECURSIVE SumLens(_, _)
SumLens(d, keys) ==
    IF keys = {} THEN 0
    ELSE LET k == CHOOSE x \in keys : TRUE
         IN  Len(d[k]) + SumLens(d, keys \ {k})

HTTPException(status, detail) == [status |-> status, body |-> [detail |-> detail]]
OK(body) == [status |-> 200, body |-> body]

\* what handler op returns to its caller, and the external calls it made
Reply(op, res, calls) ==
    /\ response' = [op |-> op, status |-> res.status, body |-> res.body]
    /\ stripe_calls' = calls

Threads == 1 .. NumThreads
idle == [op |-> "none"]

\* the module as imported: empty stores, nothing served yet
Loaded ==
    /\ USERS = <<>>
    /\ SESSIONS = <<>>
    /\ CONFIGS = <<>>
    /\ response = [op |-> "none", status |-> 0, body |-> <<>>]
    /\ stripe_calls = 0
    /\ history = [signups |-> {}, logins |-> 0, devices |-> 0]
    /\ pc = [t \in Threads |-> "idle"]
    /\ frame = [t \in Threads |-> idle]
    /\ observed = [t \in Threads |-> {}]

\* the deployment the docstring of require_admin describes: the key is set
Init ==
    /\ Loaded
    /\ FOUNDER_API_KEY = Str("founder-key")

\* any deployment: the key set, set to the empty string, or not set at all
EnvInit ==
    /\ Loaded
    /\ FOUNDER_API_KEY \in EnvValues

(***************************************************************************)
(* Auth dependency (api.py:67-74).                                         *)
(***************************************************************************)
\* auth that takes any non-empty header it cannot resolve for an email
auth_trusting(sessions, authorization) ==
    IF ~Truthy(authorization)
    THEN HTTPException(401, "unauthorized")
    ELSE IF authorization.val \in DOMAIN sessions
    THEN OK(sessions[authorization.val])
    ELSE OK([email |-> authorization.val])

\* the dependency, given the registry it reads
auth_in(sessions, authorization) ==
    IF ~Truthy(authorization) \/ authorization.val \notin DOMAIN sessions
    THEN HTTPException(401, "unauthorized")
    ELSE OK(sessions[authorization.val])

auth(authorization) == auth_in(SESSIONS, authorization)

(***************************************************************************)
(* Auth routes (api.py:88-110).                                            *)
(***************************************************************************)
\* signup without its membership test: the insert overwrites
signup_overwrite(body) ==
    /\ USERS' = Put(USERS, body.email, [password |-> body.password, active |-> TRUE])
    /\ Reply("signup", OK([ok |-> TRUE]), 0)
    /\ history' = [history EXCEPT !.signups = @ \cup {body.email}]
    /\ UNCHANGED <<SESSIONS, CONFIGS, FOUNDER_API_KEY, pc, frame, observed>>

signup(body) ==
    /\ IF body.email \in DOMAIN USERS
       THEN /\ Reply("signup", HTTPException(409, "email_exists"), 0)
            /\ UNCHANGED <<USERS, history>>
       ELSE /\ USERS' = Put(USERS, body.email,
                            [password |-> body.password, active |-> TRUE])
            /\ Reply("signup", OK([ok |-> TRUE]), 0)
            /\ history' = [history EXCEPT !.signups = @ \cup {body.email}]
    /\ UNCHANGED <<SESSIONS, CONFIGS, FOUNDER_API_KEY, pc, frame, observed>>

\* the session insert of login, as SESSIONS.setdefault would do it
sessions_put_keep(sessions, token, session) ==
    IF token \in DOMAIN sessions THEN sessions ELSE Put(sessions, token, session)

\* SESSIONS[token] = session
sessions_put(sessions, token, session) == Put(sessions, token, session)

\* login that tests the identity only, not the secret
login_any_secret(body) ==
    /\ IF body.email \notin DOMAIN USERS
       THEN /\ Reply("login", HTTPException(401, "bad_credentials"), 0)
            /\ UNCHANGED <<SESSIONS, history>>
       ELSE \E r \in RandomDraws :
                LET token == token_hex(r)
                IN  /\ history.logins < MaxLogins
                    /\ SESSIONS' = sessions_put(SESSIONS, token, [email |-> body.email])
                    /\ Reply("login", OK([token |-> token]), 0)
                    /\ history' = [history EXCEPT !.logins = @ + 1]
    /\ UNCHANGED <<USERS, CONFIGS, FOUNDER_API_KEY, pc, frame, observed>>

\* login that records the session first and tests the credentials after
login_session_first(body) ==
    /\ \E r \in RandomDraws :
         LET token == token_hex(r)
         IN  /\ history.logins < MaxLogins
             /\ SESSIONS' = sessions_put(SESSIONS, token, [email |-> body.email])
             /\ history' = [history EXCEPT !.logins = @ + 1]
             /\ IF \/ body.email \notin DOMAIN USERS
                   \/ USERS[body.email].password # body.password
                THEN Reply("login", HTTPException(401, "bad_credentials"), 0)
                ELSE Reply("login", OK([token |-> token]), 0)
    /\ UNCHANGED <<USERS, CONFIGS, FOUNDER_API_KEY, pc, frame, observed>>

\* login that tests the secret of a known identity only, and lets an unknown
\* identity in
login_unregistered(body) ==
    /\ IF /\ body.email \in DOMAIN USERS
          /\ USERS[body.email].password # body.password
       THEN /\ Reply("login", HTTPException(401, "bad_credentials"), 0)
            /\ UNCHANGED <<SESSIONS, history>>
       ELSE \E r \in RandomDraws :
                LET token == token_hex(r)
                IN  /\ history.logins < MaxLogins
                    /\ SESSIONS' = sessions_put(SESSIONS, token, [email |-> body.email])
                    /\ Reply("login", OK([token |-> token]), 0)
                    /\ history' = [history EXCEPT !.logins = @ + 1]
    /\ UNCHANGED <<USERS, CONFIGS, FOUNDER_API_KEY, pc, frame, observed>>

login(body) ==
    /\ IF \/ body.email \notin DOMAIN USERS
          \/ USERS[body.email].password # body.password
       THEN /\ Reply("login", HTTPException(401, "bad_credentials"), 0)
            /\ UNCHANGED <<SESSIONS, history>>
       ELSE \* r: what the random source returns to secrets.token_hex
            \E r \in RandomDraws :
                LET token == token_hex(r)
                IN  /\ history.logins < MaxLogins
                    /\ SESSIONS' = sessions_put(SESSIONS, token, [email |-> body.email])
                    /\ Reply("login", OK([token |-> token]), 0)
                    /\ history' = [history EXCEPT !.logins = @ + 1]
    /\ UNCHANGED <<USERS, CONFIGS, FOUNDER_API_KEY, pc, frame, observed>>

me(authorization) ==
    /\ LET user == auth(authorization)
       IN  IF user.status # 200
           THEN Reply("me", user, 0)
           ELSE LET email == user.body.email
                    active == IF email \in DOMAIN USERS
                              THEN USERS[email].active ELSE FALSE
                IN  Reply("me", OK([email |-> email, active |-> active]), 0)
    /\ UNCHANGED <<stores, FOUNDER_API_KEY, history, pc, frame, observed>>

(***************************************************************************)
(* WireGuard config routes (api.py:116-151).                               *)
(***************************************************************************)
\* the bound of both randbelow calls of api.py:124
OctetRange == 200

\* the f-string of api.py:124
peer_ip_of(o1, o2) == "10.8." \o ToString(o1) \o "." \o ToString(o2) \o "/32"

\* the profile with an endpoint line that leaves the location out
render_config_anywhere(private_key, peer_ip, public_key, location) ==
    << "[Interface]",
       "PrivateKey = " \o private_key,
       "Address = " \o peer_ip,
       "DNS = 1.1.1.1",
       "",
       "[Peer]",
       "PublicKey = " \o public_key,
       "Endpoint = wg.imuvpn.example:51820",
       "AllowedIPs = 0.0.0.0/0, ::/0",
       "PersistentKeepalive = 25" >>

\* the f-string of api.py:126-136, line by line
render_config(private_key, peer_ip, public_key, location) ==
    << "[Interface]",
       "PrivateKey = " \o private_key,
       "Address = " \o peer_ip,
       "DNS = 1.1.1.1",
       "",
       "[Peer]",
       "PublicKey = " \o public_key,
       "Endpoint = wg." \o location \o ".imuvpn.example:51820",
       "AllowedIPs = 0.0.0.0/0, ::/0",
       "PersistentKeepalive = 25" >>

\* CONFIGS.get(email, [])
configs_get(configs, email) ==
    IF email \in DOMAIN configs THEN configs[email] ELSE <<>>

\* the append of create_config, as an insert at the head of the list
configs_prepend(configs, email, record) ==
    Put(configs, email, <<record>> \o configs_get(configs, email))

\* the append with one list object shared by all identities
configs_append_shared(configs, email, record) ==
    [e \in DOMAIN configs \cup {email} |-> Append(configs_get(configs, e), record)]

\* CONFIGS.setdefault(email, []).append(record)
configs_append(configs, email, record) ==
    Put(configs, email, Append(configs_get(configs, email), record))

create_config(body, authorization) ==
    /\ LET user == auth(authorization)
       IN  IF user.status # 200
           THEN /\ Reply("create_config", user, 0)
                /\ UNCHANGED <<CONFIGS, history>>
           ELSE \* r1, r2: what the random source returns to the two token_hex
                \* calls; o1, o2: what it returns to the two randbelow calls
                \E r1 \in RandomDraws, r2 \in RandomDraws,
                   o1 \in randbelow(OctetRange), o2 \in randbelow(OctetRange) :
                    LET private_key == token_hex(r1)
                        public_key == token_hex(r2)
                        peer_ip == peer_ip_of(o1, o2)
                        config == render_config(private_key, peer_ip, public_key,
                                                body.location)
                        email == user.body.email
                    IN  /\ history.devices < MaxDevices
                        /\ CONFIGS' = configs_append(CONFIGS, email,
                                          [name |-> body.device_name,
                                           location |-> body.location,
                                           config |-> config])
                        /\ Reply("create_config",
                                 OK([device |-> body.device_name, config |-> config]), 0)
                        /\ history' = [history EXCEPT !.devices = @ + 1]
    /\ UNCHANGED <<USERS, SESSIONS, FOUNDER_API_KEY, pc, frame, observed>>

list_configs(authorization) ==
    /\ LET user == auth(authorization)
       IN  IF user.status # 200
           THEN Reply("list_configs", user, 0)
           ELSE Reply("list_configs",
                      OK(configs_get(CONFIGS, user.body.email)), 0)
    /\ UNCHANGED <<stores, FOUNDER_API_KEY, history, pc, frame, observed>>

(***************************************************************************)
(* Stripe Checkout mapping (api.py:157-184).                               *)
(***************************************************************************)
PRICE_LOOKUP ==
    [price_monthly |-> "price_1ST0aPA2orsFpuy3FeqNH1Ti",
     price_yearly  |-> "price_1ST0bbA2orsFpuy3yg1VLRLX",
     price_family  |-> "price_1ST0cRA2orsFpuy3y2KmWWg0"]

\* what stripe.checkout.Session.create does: it returns a session or raises
StripeOutcomes == {"session", "raises"}
StripeUrl == "https://checkout.stripe.example/c/pay"

\* checkout that hands the looked-up price to stripe without testing it
checkout_unchecked(body, authorization) ==
    /\ LET user == auth(authorization)
       IN  IF user.status # 200
           THEN Reply("checkout", user, 0)
           ELSE \E outcome \in StripeOutcomes :
                    IF outcome = "raises" \/ body.priceId \notin DOMAIN PRICE_LOOKUP
                    THEN Reply("checkout", HTTPException(500, "stripe_error"), 1)
                    ELSE Reply("checkout", OK([url |-> StripeUrl]), 1)
    /\ UNCHANGED <<stores, FOUNDER_API_KEY, history, pc, frame, observed>>

checkout(body, authorization) ==
    /\ LET user == auth(authorization)
       IN  IF user.status # 200
           THEN Reply("checkout", user, 0)
           ELSE IF body.priceId \notin DOMAIN PRICE_LOOKUP
           THEN Reply("checkout", HTTPException(400, "unknown_price"), 0)
           ELSE \E outcome \in StripeOutcomes :
                    IF outcome = "raises"
                    THEN Reply("checkout", HTTPException(500, "stripe_error"), 1)
                    ELSE Reply("checkout", OK([url |-> StripeUrl]), 1)
    /\ UNCHANGED <<stores, FOUNDER_API_KEY, history, pc, frame, observed>>

(***************************************************************************)
(* Founder / Admin endpoints (api.py:190-210).                             *)
(***************************************************************************)
\* the gate with the test of an unset key left out
require_admin_open(x_admin_key) ==
    LET expected == FOUNDER_API_KEY
    IN  IF Truthy(expected) /\ x_admin_key # expected
        THEN HTTPException(401, "admin_unauthorized")
        ELSE OK(None)

\* the gate that also admits the holder of a valid session token
require_admin_session(x_admin_key) ==
    LET expected == FOUNDER_API_KEY
    IN  IF /\ ~Truthy(expected) \/ x_admin_key # expected
           /\ ~Truthy(x_admin_key) \/ x_admin_key.val \notin DOMAIN SESSIONS
        THEN HTTPException(401, "admin_unauthorized")
        ELSE OK(None)

require_admin(x_admin_key) ==
    LET expected == FOUNDER_API_KEY
    IN  IF ~Truthy(expected) \/ x_admin_key # expected
        THEN HTTPException(401, "admin_unauthorized")
        ELSE OK(None)

admin_overview(x_admin_key) ==
    /\ LET gate == require_admin(x_admin_key)
       IN  IF gate.status # 200
           THEN Reply("admin_overview", gate, 0)
           ELSE LET total_users == Cardinality(DOMAIN USERS)
                    active_sessions == Cardinality(DOMAIN SESSIONS)
                    total_devices == SumLens(CONFIGS, DOMAIN CONFIGS)
                IN  Reply("admin_overview",
                          OK([total_users |-> total_users,
                              active_sessions |-> active_sessions,
                              total_devices |-> total_devices]), 0)
    /\ UNCHANGED <<stores, FOUNDER_API_KEY, history, pc, frame, observed>>

(***************************************************************************)
(* One request at a time.                                                  *)
(***************************************************************************)
Next ==
    \/ \E body \in SignupBodies : signup(body)
    \/ \E body \in LoginBodies : login(body)
    \/ \E authorization \in Headers : me(authorization)
    \/ \E body \in CreateConfigBodies, authorization \in Headers :
            create_config(body, authorization)
    \/ \E authorization \in Headers : list_configs(authorization)
    \/ \E body \in CheckoutBodies, authorization \in Headers :
            checkout(body, authorization)
    \/ \E x_admin_key \in AdminKeys : admin_overview(x_admin_key)

Spec == Init /\ [][Next]_vars

\* the same requests under any deployment
EnvSpec == EnvInit /\ [][Next]_vars

(***************************************************************************)
(* Properties of the account store and the session registry.               *)
(***************************************************************************)
\* the predicate login tests before it issues a token
CredentialsMatch(body) ==
    /\ body.email \in DOMAIN USERS
    /\ USERS[body.email].password = body.password

\* C1: a signup whose email is already in the account store fails with 409
\* email_exists and leaves the account store (the credential and the active
\* flag of the original identity) as it was; a signup that succeeds is for an
\* email no earlier signup succeeded for.
C1_SignupUnique ==
    [][\A body \in SignupBodies :
         (response'.op = "signup" /\ signup(body)) =>
           /\ body.email \in DOMAIN USERS =>
                /\ response'.status = 409
                /\ response'.body = [detail |-> "email_exists"]
                /\ USERS' = USERS
           /\ response'.status = 200 =>
                /\ body.email \notin history.signups
                /\ body.email \notin DOMAIN USERS
                /\ USERS'[body.email] = [password |-> body.password, active |-> TRUE]
                /\ \A e \in DOMAIN USERS : USERS'[e] = USERS[e]]_vars

\* a second signup for a registered email was refused, with another secret
\* than the stored one on offer
C1_Witness ==
    /\ response.op = "signup"
    /\ response.status = 409
    /\ \E e \in DOMAIN USERS : \E p \in Passwords : USERS[e].password # p

\* C2: login returns a token exactly when an identity exists for the email
\* and its stored secret equals the supplied one; otherwise it fails with 401
\* bad_credentials. Empty emails and empty secrets are no exception.
C2_LoginIff ==
    [][\A body \in LoginBodies :
         (response'.op = "login" /\ login(body)) =>
           IF CredentialsMatch(body)
           THEN /\ response'.status = 200
                /\ response'.body.token \in Tokens
           ELSE /\ response'.status = 401
                /\ response'.body = [detail |-> "bad_credentials"]]_vars

\* the identity with the empty email and the empty secret has logged in
C2_Witness ==
    /\ response.op = "login"
    /\ response.status = 200
    /\ SESSIONS[response.body.token].email = ""
    /\ USERS[""].password = ""

\* C3: the token a successful login returns is not in the session registry
\* before that login, so no login overwrites a session entry.
C3_TokenFresh ==
    [][\A body \in LoginBodies :
         (response'.op = "login" /\ login(body) /\ response'.status = 200) =>
           response'.body.token \notin DOMAIN SESSIONS]_vars

\* C4: the token a successful login for an email returns resolves, through
\* the auth dependency, to that email.
C4_ResolveIssued ==
    [][\A body \in LoginBodies :
         (response'.op = "login" /\ login(body) /\ response'.status = 200) =>
           auth_in(SESSIONS', Str(response'.body.token)) = OK([email |-> body.email])]_vars

\* a login has returned a token that an earlier login had returned too
C4_Witness ==
    /\ response.op = "login"
    /\ response.status = 200
    /\ history.logins = 2
    /\ Cardinality(DOMAIN SESSIONS) = 1

(***************************************************************************)
(* Properties of the user-scoped operations.                               *)
(***************************************************************************)
Unresolvable(authorization) ==
    \/ authorization.isNone
    \/ authorization.val = ""
    \/ authorization.val \notin DOMAIN SESSIONS

UserScoped == {"me", "create_config", "list_configs", "checkout"}

\* the step is a user-scoped request carrying this header
UserScopedStep(authorization) ==
    \/ response'.op = "me" /\ me(authorization)
    \/ response'.op = "list_configs" /\ list_configs(authorization)
    \/ /\ response'.op = "create_config"
       /\ \E body \in CreateConfigBodies : create_config(body, authorization)
    \/ /\ response'.op = "checkout"
       /\ \E body \in CheckoutBodies : checkout(body, authorization)

\* C5: whoami, provision-device, list-devices and checkout with a token that
\* is absent, empty or not in the session registry fail with 401 unauthorized
\* and leave the account store, the session registry and the device lists as
\* they were.
C5_UnauthorizedNoMutation ==
    [][\A authorization \in Headers :
         (Unresolvable(authorization) /\ UserScopedStep(authorization)) =>
           /\ response'.status = 401
           /\ response'.body = [detail |-> "unauthorized"]
           /\ UNCHANGED stores]_vars

\* provisioning was refused although sessions and device lists exist
C5_Witness ==
    /\ response.op = "create_config"
    /\ response.status = 401
    /\ DOMAIN SESSIONS # {}
    /\ DOMAIN CONFIGS # {}

\* C6: an authorized provision-device call appends exactly one record to the
\* caller's device list: its length grows by one, the records it held keep
\* their content and order, and the list that list-devices returns afterwards
\* ends with the new record.
C6_AppendOne ==
    [][\A body \in CreateConfigBodies, authorization \in Headers :
         (/\ response'.op = "create_config"
          /\ response'.status = 200
          /\ response'.body.device = body.device_name
          /\ create_config(body, authorization)) =>
           LET email == auth(authorization).body.email
               before == configs_get(CONFIGS, email)
               after == configs_get(CONFIGS', email)
           IN  /\ Len(after) = Len(before) + 1
               /\ SubSeq(after, 1, Len(before)) = before
               /\ after[Len(after)] = [name |-> body.device_name,
                                       location |-> body.location,
                                       config |-> response'.body.config]]_vars

\* a second device was provisioned for an identity, with another profile
\* than its first
C6_Witness ==
    /\ response.op = "create_config"
    /\ response.status = 200
    /\ \E e \in DOMAIN CONFIGS :
         /\ Len(CONFIGS[e]) = 2
         /\ CONFIGS[e][1] # CONFIGS[e][2]

(***************************************************************************)
(* Properties of the admin endpoint and of checkout.                       *)
(***************************************************************************)
\* C7: an authorized admin snapshot returns the number of emails that signed
\* up, the number of tokens the logins issued and the number of devices
\* provisioned.
C7_SnapshotCounts ==
    (response.op = "admin_overview" /\ response.status = 200) =>
        response.body = [total_users |-> Cardinality(history.signups),
                         active_sessions |-> history.logins,
                         total_devices |-> history.devices]

\* C8: the admin gate refuses with 401 admin_unauthorized whenever
\* FOUNDER_API_KEY is unset or empty, whatever the caller supplies, and when
\* it is set the gate lets through exactly the callers whose header equals it.
C8_AdminGate ==
    [][\A x_admin_key \in AdminKeys :
         (response'.op = "admin_overview" /\ admin_overview(x_admin_key)) =>
           IF Truthy(FOUNDER_API_KEY) /\ x_admin_key = FOUNDER_API_KEY
           THEN response'.status = 200
           ELSE /\ response'.status = 401
                /\ response'.body = [detail |-> "admin_unauthorized"]]_vars

\* the admin endpoint refused a caller while no usable key was configured
C8_Witness ==
    /\ response.op = "admin_overview"
    /\ response.status = 401
    /\ ~Truthy(FOUNDER_API_KEY)

\* C9 as claimed: checkout with a plan identifier outside PRICE_LOOKUP fails
\* with 400 unknown_price and calls stripe not at all.
C9_UnknownPlanAlways ==
    [][\A body \in CheckoutBodies, authorization \in Headers :
         (/\ response'.op = "checkout"
          /\ body.priceId \notin DOMAIN PRICE_LOOKUP
          /\ checkout(body, authorization)) =>
           /\ response'.status = 400
           /\ response'.body = [detail |-> "unknown_price"]
           /\ stripe_calls' = 0]_vars

\* C9 as amended: checkout with a plan identifier outside PRICE_LOOKUP calls
\* stripe not at all and leaves the stores as they were; it fails with 400
\* unknown_price when the caller's token resolves, and with 401 unauthorized
\* when it does not.
C9_UnknownPlan ==
    [][\A body \in CheckoutBodies, authorization \in Headers :
         (/\ response'.op = "checkout"
          /\ body.priceId \notin DOMAIN PRICE_LOOKUP
          /\ checkout(body, authorization)) =>
           /\ stripe_calls' = 0
           /\ UNCHANGED stores
           /\ IF Unresolvable(authorization)
              THEN /\ response'.status = 401
                   /\ response'.body = [detail |-> "unauthorized"]
              ELSE /\ response'.status = 400
                   /\ response'.body = [detail |-> "unknown_price"]]_vars

\* a signed-in caller's checkout was refused for its plan identifier
C9_Witness ==
    /\ response.op = "checkout"
    /\ response.status = 400
    /\ response.body = [detail |-> "unknown_price"]
    /\ stripe_calls = 0

(***************************************************************************)
(* Requests on worker threads. The handlers are synchronous functions, so  *)
(* each request runs on a thread of the pool and a thread switch can fall  *)
(* between any two statements of a handler. A thread takes a request       *)
(* (begin), runs the handler's statements one step each, and hands the     *)
(* response back (respond).                                                *)
(***************************************************************************)
shared == <<FOUNDER_API_KEY, response, stripe_calls, history>>

Goto(t, label) == pc' = [pc EXCEPT ![t] = label]

\* the three counts admin_overview reports, of given stores
Counts(users, sessions, configs) ==
    [total_users |-> Cardinality(DOMAIN users),
     active_sessions |-> Cardinality(DOMAIN sessions),
     total_devices |-> SumLens(configs, DOMAIN configs)]

\* the labels of a thread inside admin_overview
OverviewLabels == {"overview_197", "overview_203", "overview_204", "overview_205"}

InOverview(label, fr) ==
    \/ label \in OverviewLabels
    \/ label = "done" /\ fr.op = "admin_overview" /\ fr.response.status = 200

\* every step of a thread adds the state it leads to to the states that the
\* admin_overview calls in progress have passed
Observe ==
    observed' = [t \in Threads |->
                   IF InOverview(pc'[t], frame'[t])
                   THEN observed[t] \cup {Counts(USERS', SESSIONS', CONFIGS')}
                   ELSE {}]

begin_signup(t, body) ==
    /\ pc[t] = "idle"
    /\ Goto(t, "signup_90")
    /\ frame' = [frame EXCEPT ![t] = [op |-> "signup", body |-> body]]
    /\ UNCHANGED <<stores, shared>>
    /\ Observe

\* api.py:90-91  if body.email in USERS: raise HTTPException(409, ...)
signup_90(t) ==
    /\ pc[t] = "signup_90"
    /\ IF frame[t].body.email \in DOMAIN USERS
       THEN /\ Goto(t, "done")
            /\ frame' = [frame EXCEPT ![t] =
                   [op |-> "signup", body |-> frame[t].body,
                    response |-> HTTPException(409, "email_exists")]]
       ELSE /\ Goto(t, "signup_92")
            /\ UNCHANGED frame
    /\ UNCHANGED <<stores, shared>>
    /\ Observe

\* api.py:92-93  USERS[body.email] = {...}; return {"ok": True}
signup_92(t) ==
    /\ pc[t] = "signup_92"
    /\ USERS' = Put(USERS, frame[t].body.email,
                    [password |-> frame[t].body.password, active |-> TRUE])
    /\ Goto(t, "done")
    /\ frame' = [frame EXCEPT ![t] =
           [op |-> "signup", body |-> frame[t].body, response |-> OK([ok |-> TRUE])]]
    /\ UNCHANGED <<SESSIONS, CONFIGS, shared>>
    /\ Observe

\* the response leaves; the thread returns to the pool
respond(t) ==
    /\ pc[t] = "done"
    /\ Goto(t, "idle")
    /\ frame' = [frame EXCEPT ![t] = idle]
    /\ UNCHANGED <<stores, shared>>
    /\ Observe

ConcNext ==
    \E t \in Threads :
        \/ \E body \in SignupBodies : begin_signup(t, body)
        \/ signup_90(t)
        \/ signup_92(t)
        \/ respond(t)

ConcSpec == Init /\ [][ConcNext]_vars

\* the thread holds the response of a signup for this email
SignupDone(t, email) ==
    /\ pc[t] = "done"
    /\ frame[t].op = "signup"
    /\ frame[t].body.email = email

\* C10: of two signup requests for one email that are in flight together, at
\* most one returns success, the other returns 409 email_exists, and the
\* stored credential is the one the successful request supplied.
C10_ConcurrentSignup ==
    \A t1 \in Threads : \A t2 \in Threads \ {t1} : \A email \in Emails :
        (SignupDone(t1, email) /\ SignupDone(t2, email)) =>
            /\ ~(frame[t1].response.status = 200 /\ frame[t2].response.status = 200)
            /\ frame[t1].response.status = 200 =>
                 /\ frame[t2].response.status = 409
                 /\ USERS[email].password = frame[t1].body.password

(***************************************************************************)
(* login and admin_overview on worker threads.                             *)
(***************************************************************************)
Done(t, fr, res) ==
    /\ Goto(t, "done")
    /\ frame' = [frame EXCEPT ![t] = [fr EXCEPT !.response = res]]

Local(t, fr) == frame' = [frame EXCEPT ![t] = fr]

begin_login(t, body) ==
    /\ pc[t] = "idle"
    /\ Goto(t, "login_98")
    /\ Local(t, [op |-> "login", body |-> body, user |-> None, token |-> "",
                 response |-> [status |-> 0]])
    /\ UNCHANGED <<stores, shared>>
    /\ Observe

\* api.py:98  user = USERS.get(body.email)
login_98(t) ==
    /\ pc[t] = "login_98"
    /\ Goto(t, "login_99")
    /\ Local(t, [frame[t] EXCEPT !.user =
                   IF frame[t].body.email \in DOMAIN USERS
                   THEN [isNone |-> FALSE, val |-> USERS[frame[t].body.email]]
                   ELSE None])
    /\ UNCHANGED <<stores, shared>>
    /\ Observe

\* api.py:99-100  if not user or user["password"] != body.password: raise
login_99(t) ==
    /\ pc[t] = "login_99"
    /\ IF \/ frame[t].user.isNone
          \/ frame[t].user.val.password # frame[t].body.password
       THEN Done(t, frame[t], HTTPException(401, "bad_credentials"))
       ELSE Goto(t, "login_101") /\ UNCHANGED frame
    /\ UNCHANGED <<stores, shared>>
    /\ Observe

\* api.py:101  token = secrets.token_hex(16)
login_101(t) ==
    /\ pc[t] = "login_101"
    /\ \E r \in RandomDraws : Local(t, [frame[t] EXCEPT !.token = token_hex(r)])
    /\ Goto(t, "login_102")
    /\ UNCHANGED <<stores, shared>>
    /\ Observe

\* api.py:102-103  SESSIONS[token] = {"email": body.email}; return {"token": token}
login_102(t) ==
    /\ pc[t] = "login_102"
    /\ SESSIONS' = sessions_put(SESSIONS, frame[t].token,
                                [email |-> frame[t].body.email])
    /\ Done(t, frame[t], OK([token |-> frame[t].token]))
    /\ UNCHANGED <<USERS, CONFIGS, shared>>
    /\ Observe

begin_overview(t, x_admin_key) ==
    /\ pc[t] = "idle"
    /\ Goto(t, "overview_197")
    /\ Local(t, [op |-> "admin_overview", x_admin_key |-> x_admin_key,
                 total_users |-> 0, active_sessions |-> 0,
                 response |-> [status |-> 0]])
    /\ UNCHANGED <<stores, shared>>
    /\ Observe

\* api.py:196-198  the require_admin dependency
overview_197(t) ==
    /\ pc[t] = "overview_197"
    /\ LET gate == require_admin(frame[t].x_admin_key)
       IN  IF gate.status # 200
           THEN Done(t, frame[t], gate)
           ELSE Goto(t, "overview_203") /\ UNCHANGED frame
    /\ UNCHANGED <<stores, shared>>
    /\ Observe

\* api.py:203  total_users = len(USERS)
overview_203(t) ==
    /\ pc[t] = "overview_203"
    /\ Goto(t, "overview_204")
    /\ Local(t, [frame[t] EXCEPT !.total_users = Cardinality(DOMAIN USERS)])
    /\ UNCHANGED <<stores, shared>>
    /\ Observe

\* api.py:204  active_sessions = len(SESSIONS)
overview_204(t) ==
    /\ pc[t] = "overview_204"
    /\ Goto(t, "overview_205")
    /\ Local(t, [frame[t] EXCEPT !.active_sessions = Cardinality(DOMAIN SESSIONS)])
    /\ UNCHANGED <<stores, shared>>
    /\ Observe

\* api.py:205-210  total_devices = sum(len(v) for v in CONFIGS.values()) and
\* the return. No thread of SnapSpec writes CONFIGS, so the loop of line 205
\* reads one state of it.
overview_205(t) ==
    /\ pc[t] = "overview_205"
    /\ Done(t, frame[t],
            OK([total_users |-> frame[t].total_users,
                active_sessions |-> frame[t].active_sessions,
                total_devices |-> SumLens(CONFIGS, DOMAIN CONFIGS)]))
    /\ UNCHANGED <<stores, shared>>
    /\ Observe

\* signups and logins while admin_overview runs
SnapNext ==
    \E t \in Threads :
        \/ \E body \in SignupBodies : begin_signup(t, body)
        \/ signup_90(t)
        \/ signup_92(t)
        \/ \E body \in LoginBodies : begin_login(t, body)
        \/ login_98(t)
        \/ login_99(t)
        \/ login_101(t)
        \/ login_102(t)
        \/ \E x_admin_key \in AdminKeys : begin_overview(t, x_admin_key)
        \/ overview_197(t)
        \/ overview_203(t)
        \/ overview_204(t)
        \/ overview_205(t)
        \/ respond(t)

SnapSpec == Init /\ [][SnapNext]_vars

\* C11: the triple an admin_overview call returns is the triple of counts of
\* one of the states the system was in between the call's start and its
\* return.
C11_SnapshotConsistent ==
    \A t \in Threads :
        (/\ pc[t] = "done"
         /\ frame[t].op = "admin_overview"
         /\ frame[t].response.status = 200) =>
            frame[t].response.body \in observed[t]

(***************************************************************************)
(* The two authorization policies.                                         *)
(***************************************************************************)
\* everything a caller may put in a header: nothing, the empty string, any
\* token, valid or not, and any admin key, right or wrong
Supplied == Headers \cup AdminKeys

\* C12: in every state the admin gate lets a supplied header through exactly
\* when FOUNDER_API_KEY is set and equal to it, whatever accounts and sessions
\* exist (a valid session token in particular is refused), and the auth
\* dependency resolves a supplied header exactly when it is a key of SESSIONS,
\* whatever FOUNDER_API_KEY is (the admin key in particular is refused).
C12_PoliciesIndependent ==
    /\ \A k \in Supplied :
         require_admin(k).status = 200 <=> (Truthy(FOUNDER_API_KEY) /\ k = FOUNDER_API_KEY)
    /\ \A t \in DOMAIN SESSIONS :
         require_admin(Str(t)) = HTTPException(401, "admin_unauthorized")
    /\ \A h \in Supplied :
         auth(h).status = 200 <=> (Truthy(h) /\ h.val \in DOMAIN SESSIONS)
    /\ Truthy(FOUNDER_API_KEY) =>
         auth(FOUNDER_API_KEY) = HTTPException(401, "unauthorized")

\* the admin endpoint refused a caller while a key was configured and a valid
\* session token existed
C12_Witness ==
    /\ response.op = "admin_overview"
    /\ response.status = 401
    /\ Truthy(FOUNDER_API_KEY)
    /\ DOMAIN SESSIONS # {}

(***************************************************************************)
(* Lifetime of sessions.                                                   *)
(***************************************************************************)
\* C13: a token that resolves to an email resolves to that same email after
\* every step, so no request revokes, expires or re-targets a session.
C13_TokensPersist ==
    [][\A t \in DOMAIN SESSIONS :
         auth_in(SESSIONS', Str(t)) = auth_in(SESSIONS, Str(t))]_vars

(***************************************************************************)
(* Device profiles.                                                        *)
(***************************************************************************)
\* C14: the profile a successful create_config returns is, line by line, an
\* [Interface] section with a private key, an address and DNS 1.1.1.1, an
\* empty line, and a [Peer] section with a public key, the endpoint
\* wg.<location>.imuvpn.example:51820 for the location of the request, the
\* allowed ranges and keepalive 25.
C14_ProfileShape ==
    [][\A body \in CreateConfigBodies, authorization \in Headers :
         (/\ response'.op = "create_config"
          /\ response'.status = 200
          /\ create_config(body, authorization)) =>
           LET c == response'.body.config
           IN  /\ Len(c) = 10
               /\ c[1] = "[Interface]"
               /\ \E r \in RandomDraws : c[2] = "PrivateKey = " \o token_hex(r)
               /\ \E o1 \in randbelow(OctetRange), o2 \in randbelow(OctetRange) :
                    c[3] = "Address = 10.8." \o ToString(o1) \o "." \o ToString(o2) \o "/32"
               /\ c[4] = "DNS = 1.1.1.1"
               /\ c[5] = ""
               /\ c[6] = "[Peer]"
               /\ \E r \in RandomDraws : c[7] = "PublicKey = " \o token_hex(r)
               /\ c[8] = "Endpoint = wg." \o body.location \o ".imuvpn.example:51820"
               /\ c[9] = "AllowedIPs = 0.0.0.0/0, ::/0"
               /\ c[10] = "PersistentKeepalive = 25"]_vars

\* a profile for the location jp-1 has been returned
C14_Witness ==
    /\ response.op = "create_config"
    /\ response.status = 200
    /\ response.body.config[8] = "Endpoint = wg.jp-1.imuvpn.example:51820"

\* C15: no two device records, of one identity or of two, carry the same
\* private key line.
C15_KeysUnique ==
    \A e1 \in DOMAIN CONFIGS, e2 \in DOMAIN CONFIGS :
        \A i \in DOMAIN CONFIGS[e1], j \in DOMAIN CONFIGS[e2] :
            (e1 # e2 \/ i # j) =>
                CONFIGS[e1][i].config[2] # CONFIGS[e2][j].config[2]

\* every address line the range [0, 200) of the two octets allows
AddressLines ==
    {"Address = " \o peer_ip_of(o1, o2) :
        o1 \in 0..(OctetRange - 1), o2 \in 0..(OctetRange - 1)}

\* C16: the address of every device record is 10.8.o1.o2/32 with both octets
\* in 0..199; nothing keeps two records from holding the same address.
C16_AddressRange ==
    \A e \in DOMAIN CONFIGS :
        \A i \in DOMAIN CONFIGS[e] : CONFIGS[e][i].config[3] \in AddressLines

\* two device records hold the same address
C16_Witness ==
    \E e1 \in DOMAIN CONFIGS, e2 \in DOMAIN CONFIGS :
        \E i \in DOMAIN CONFIGS[e1], j \in DOMAIN CONFIGS[e2] :
            /\ e1 # e2 \/ i # j
            /\ CONFIGS[e1][i].config[3] = CONFIGS[e2][j].config[3]

(***************************************************************************)
(* create_config on worker threads.                                        *)
(***************************************************************************)
\* create_config calls served by the threads of ProvSpec, in all
MaxProvisions == 3

CreateLabels == {"create_auth", "create_122", "create_139", "create_145"}

\* dict.setdefault with a list that forgets what the key holds
configs_setdefault_fresh(configs, email) == Put(configs, email, <<>>)

\* CONFIGS.setdefault(email, []): the key gets an empty list unless it has a
\* list; the call returns the list the dict holds, not a copy of it
configs_setdefault(configs, email) ==
    IF email \in DOMAIN configs THEN configs ELSE Put(configs, email, <<>>)

\* <the list CONFIGS holds for email>.append(record)
list_append(configs, email, record) ==
    [configs EXCEPT ![email] = Append(@, record)]

begin_create_config(t, body, authorization) ==
    /\ pc[t] = "idle"
    /\ history.devices + Cardinality({u \in Threads : pc[u] \in CreateLabels})
         < MaxProvisions
    /\ Goto(t, "create_auth")
    /\ Local(t, [op |-> "create_config", body |-> body,
                 authorization |-> authorization, email |-> "",
                 config |-> <<>>, response |-> [status |-> 0]])
    /\ UNCHANGED <<stores, shared>>
    /\ Observe

\* api.py:67-74  the auth dependency
create_auth(t) ==
    /\ pc[t] = "create_auth"
    /\ LET user == auth(frame[t].authorization)
       IN  IF user.status # 200
           THEN Done(t, frame[t], user)
           ELSE /\ Goto(t, "create_122")
                /\ Local(t, [frame[t] EXCEPT !.email = user.body.email])
    /\ UNCHANGED <<stores, shared>>
    /\ Observe

\* api.py:122-138  the keys, the address, the profile text
create_122(t) ==
    /\ pc[t] = "create_122"
    /\ \E r1 \in RandomDraws, r2 \in RandomDraws,
          o1 \in randbelow(OctetRange), o2 \in randbelow(OctetRange) :
           Local(t, [frame[t] EXCEPT !.config =
                       render_config(token_hex(r1), peer_ip_of(o1, o2),
                                     token_hex(r2), frame[t].body.location)])
    /\ Goto(t, "create_139")
    /\ UNCHANGED <<stores, shared>>
    /\ Observe

\* api.py:139  CONFIGS.setdefault(email, [])
create_139(t) ==
    /\ pc[t] = "create_139"
    /\ CONFIGS' = configs_setdefault(CONFIGS, frame[t].email)
    /\ Goto(t, "create_145")
    /\ UNCHANGED <<USERS, SESSIONS, frame, shared>>
    /\ Observe

\* api.py:139-146  .append({...}) on the list setdefault returned, and the
\* return
create_145(t) ==
    /\ pc[t] = "create_145"
    /\ CONFIGS' = list_append(CONFIGS, frame[t].email,
                              [name |-> frame[t].body.device_name,
                               location |-> frame[t].body.location,
                               config |-> frame[t].config])
    /\ history' = [history EXCEPT !.devices = @ + 1]
    /\ Done(t, frame[t], OK([device |-> frame[t].body.device_name,
                             config |-> frame[t].config]))
    /\ UNCHANGED <<USERS, SESSIONS, FOUNDER_API_KEY, response, stripe_calls>>
    /\ Observe

\* the state after a@x.io has signed up and logged in once
ProvInit ==
    /\ USERS = Put(<<>>, "a@x.io", [password |-> "pw", active |-> TRUE])
    /\ SESSIONS = sessions_put(<<>>, token_hex(0), [email |-> "a@x.io"])
    /\ CONFIGS = <<>>
    /\ response = [op |-> "login", status |-> 200, body |-> [token |-> token_hex(0)]]
    /\ stripe_calls = 0
    /\ history = [signups |-> {"a@x.io"}, logins |-> 1, devices |-> 0]
    /\ pc = [t \in Threads |-> "idle"]
    /\ frame = [t \in Threads |-> idle]
    /\ observed = [t \in Threads |-> {}]
    /\ FOUNDER_API_KEY = Str("founder-key")

ProvNext ==
    \E t \in Threads :
        \/ \E body \in CreateConfigBodies, authorization \in Headers :
             begin_create_config(t, body, authorization)
        \/ create_auth(t)
        \/ create_122(t)
        \/ create_139(t)
        \/ create_145(t)
        \/ respond(t)

ProvSpec == ProvInit /\ [][ProvNext]_vars

\* C17: no append of create_config is lost: the device lists hold, in all, as
\* many records as create_config calls have appended, and the list of its
\* identity holds the record of every call that has returned and not yet
\* handed back its thread, one entry for each such call.
C17_NoLostAppend ==
    /\ SumLens(CONFIGS, DOMAIN CONFIGS) = history.devices
    /\ \A t \in Threads :
         (/\ pc[t] = "done"
          /\ frame[t].op = "create_config"
          /\ frame[t].response.status = 200) =>
             /\ frame[t].email \in DOMAIN CONFIGS
             /\ \E i \in DOMAIN CONFIGS[frame[t].email] :
                  CONFIGS[frame[t].email][i].config = frame[t].config
    /\ \A e \in DOMAIN CONFIGS :
         Cardinality({t \in Threads :
                        /\ pc[t] = "done"
                        /\ frame[t].op = "create_config"
                        /\ frame[t].response.status = 200
                        /\ frame[t].email = e}) <= Len(CONFIGS[e])

\* two calls for one identity have both returned, and its list, which had a
\* record before them, has grown by two
C17_Witness ==
    /\ \A t \in Threads :
         /\ pc[t] = "done"
         /\ frame[t].op = "create_config"
         /\ frame[t].response.status = 200
         /\ frame[t].email = "a@x.io"
    /\ Len(CONFIGS["a@x.io"]) = NumThreads + 1
    /\ history.devices = NumThreads + 1

(***************************************************************************)
(* Failures, integrity and frame.                                          *)
(***************************************************************************)
\* C18: a request that ends in a failure (any status other than 200) leaves
\* USERS, SESSIONS and CONFIGS as they were, and a failed login returns
\* bad_credentials and no token.
C18_FailureNoMutation ==
    [][/\ response'.status # 200 => UNCHANGED stores
       /\ (response'.op = "login" /\ response'.status # 200) =>
            /\ response'.body = [detail |-> "bad_credentials"]
            /\ DOMAIN SESSIONS' = DOMAIN SESSIONS]_vars

\* a login has failed while accounts, sessions and device lists exist
C18_Witness ==
    /\ response.op = "login"
    /\ response.status = 401
    /\ DOMAIN USERS # {}
    /\ DOMAIN SESSIONS # {}
    /\ DOMAIN CONFIGS # {}

\* C19: the email of every session and the key of every device list is a key
\* of USERS, and a successful whoami reports an email that is a key of USERS,
\* with active true.
C19_ReferentialIntegrity ==
    /\ \A t \in DOMAIN SESSIONS : SESSIONS[t].email \in DOMAIN USERS
    /\ DOMAIN CONFIGS \subseteq DOMAIN USERS
    /\ (response.op = "me" /\ response.status = 200) =>
         /\ response.body.email \in DOMAIN USERS
         /\ response.body.active = TRUE

\* whoami has answered for one of two sessions while a device list exists
C19_Witness ==
    /\ response.op = "me"
    /\ response.status = 200
    /\ Cardinality(DOMAIN SESSIONS) = 2
    /\ DOMAIN CONFIGS # {}

\* C20: a successful create_config of the identity a token resolves to leaves
\* USERS, SESSIONS and the device list of every other identity as they were,
\* and me, list_configs and admin_overview leave all three stores as they
\* were.
C20_Frame ==
    [][/\ \A body \in CreateConfigBodies, authorization \in Headers :
            (/\ response'.op = "create_config"
             /\ response'.status = 200
             /\ create_config(body, authorization)) =>
               /\ USERS' = USERS
               /\ SESSIONS' = SESSIONS
               /\ DOMAIN CONFIGS' = DOMAIN CONFIGS \cup {auth(authorization).body.email}
               /\ \A e \in DOMAIN CONFIGS \ {auth(authorization).body.email} :
                    CONFIGS'[e] = CONFIGS[e]
       /\ response'.op \in {"me", "list_configs", "admin_overview"} =>
            UNCHANGED stores]_vars

\* a device has been provisioned while another identity has a device list
C20_Witness ==
    /\ response.op = "create_config"
    /\ response.status = 200
    /\ Cardinality(DOMAIN CONFIGS) = 2

====
